---- MODULE Spec2Model ----
(***************************************************************************)
(* Model of the RSS aggregation pipeline of the Daily Dispatch Quiz server *)
(* (src/unnamed/part_000): the file-based data store, the feed locator,    *)
(* the recency filter, the parser, the aggregation pass with its per-feed  *)
(* timers, and the HTTP handlers that read the cache, request a refresh    *)
(* and save the site list.                                                 *)
(*                                                                         *)
(* Strings are sequences of tokens (a token stands for a run of            *)
(* characters that the program never looks inside).  Times are             *)
(* milliseconds since an arbitrary origin that lies StartTime before       *)
(* process start.                                                          *)
(***************************************************************************)
EXTENDS Integers, Sequences, FiniteSets, TLC

\* ------------------------------------------------------------------------
\* Bounds of the model
\* ------------------------------------------------------------------------
\* number of POST /api/rss/refresh requests served in one behaviour
MaxRefreshes == 1
\* number of clock ticks after process start
MaxTicks == 5

\* ------------------------------------------------------------------------
\* Time
\* ------------------------------------------------------------------------
HourMs == 60 * 60 * 1000
\* one clock tick of the model
TickMs == 4 * 1000
\* the clock value at process start
StartTime == 30 * HourMs
\* setTimeout(fetchAndCacheRSS, 5000)
StartupDelayMs == 5000
\* setTimeout(() => resolve(), 8000)
FeedTimeoutMs == 8000
\* protocol.get(url, { timeout: 10000 })
TransportTimeoutMs == 10000
\* 26 * 60 * 60 * 1000
RecencyWindowMs == 26 * 60 * 60 * 1000
\* unique.slice(0, 40)
MaxCachedItems == 40
\* description.slice(0, 500)
MaxDescriptionLen == 500

\* ------------------------------------------------------------------------
\* Generic sequence helpers (Array.prototype.filter / slice / includes)
\* ------------------------------------------------------------------------
Min(a, b) == IF a < b THEN a ELSE b

\* Array.prototype.slice(0, n)
Slice(s, n) == SubSeq(s, 1, Min(Len(s), n))

\* the set of elements of a sequence
Range(s) == {s[i] : i \in 1..Len(s)}

\* String.prototype.includes on token sequences
Includes(s, key) ==
    \E i \in 1..(Len(s) + 1) :
        /\ i + Len(key) - 1 <= Len(s)
        /\ SubSeq(s, i, i + Len(key) - 1) = key

\* ------------------------------------------------------------------------
\* The site list: a newline-separated string
\* ------------------------------------------------------------------------
NL == "\n"
SP == " "

\* String.prototype.split('\n'): the pieces between consecutive separators,
\* one more than there are separators
SplitLines(s) ==
    LET nls == SelectSeq([i \in 1..Len(s) |-> i], LAMBDA i : s[i] = NL)
        lo(j) == IF j = 1 THEN 1 ELSE nls[j - 1] + 1
        hi(j) == IF j = Len(nls) + 1 THEN Len(s) ELSE nls[j] - 1
    IN [j \in 1..(Len(nls) + 1) |-> SubSeq(s, lo(j), hi(j))]

\* String.prototype.trim
RECURSIVE Trim(_)
Trim(s) ==
    IF s = <<>> THEN s
    ELSE IF Head(s) = SP THEN Trim(Tail(s))
    ELSE IF s[Len(s)] = SP THEN Trim(SubSeq(s, 1, Len(s) - 1))
    ELSE s

\* (data.sites || '').split('\n').map(s => s.trim()).filter(Boolean)
SavedSites(sites) ==
    LET lines == SplitLines(sites)
        trimmed == [i \in 1..Len(lines) |-> Trim(lines[i])]
    IN SelectSeq(trimmed, LAMBDA l : l # <<>>)

\* ------------------------------------------------------------------------
\* Feed locator
\* ------------------------------------------------------------------------
\* the known-feed table, in insertion order
BALTIMORE_RSS_FEEDS ==
    << [key |-> <<"baltimoresun.com">>,
        feedUrl |-> <<"https://", "www.baltimoresun.com/arcio/rss/">>],
       [key |-> <<"wbal.com">>,
        feedUrl |-> <<"https://", "www.wbal.com/rss">>],
       [key |-> <<"wbaltv.com">>,
        feedUrl |-> <<"https://", "www.wbaltv.com/rss">>],
       [key |-> <<"marylandmatters.org">>,
        feedUrl |-> <<"https://", "marylandmatters.org/feed/">>],
       [key |-> <<"baltimorebrew.com">>,
        feedUrl |-> <<"https://", "baltimorebrew.com/feed/">>],
       [key |-> <<"thedailyrecord.com">>,
        feedUrl |-> <<"https://", "thedailyrecord.com/feed/">>],
       [key |-> <<"wypr.org">>,
        feedUrl |-> <<"https://", "www.wypr.org/rss.xml">>],
       [key |-> <<"foxbaltimore.com">>,
        feedUrl |-> <<"https://", "foxbaltimore.com/rss">>],
       [key |-> <<"wmar2news.com">>,
        feedUrl |-> <<"https://", "www.wmar2news.com/rss">>],
       [key |-> <<"cbsnews.com", "/", "baltimore">>,
        feedUrl |-> <<"https://", "www.cbsnews.com/latest/rss/local/wbz">>],
       [key |-> <<"therealnews.com">>,
        feedUrl |-> <<"https://", "therealnews.com/feed">>],
       [key |-> <<"technical.ly", "/", "baltimore">>,
        feedUrl |-> <<"https://", "technical.ly/feed/">>] >>

\* site.replace(/\/$/, '')
StripTrailingSlash(site) ==
    IF site # <<>> /\ site[Len(site)] = "/"
    THEN SubSeq(site, 1, Len(site) - 1)
    ELSE site

\* a locator that takes the last matching key of the table
Candidates_LastMatch(site) ==
    LET hits == {k \in 1..Len(BALTIMORE_RSS_FEEDS) :
                     Includes(site, BALTIMORE_RSS_FEEDS[k].key)}
    IN IF hits # {}
       THEN LET k == CHOOSE h \in hits : \A g \in hits : h >= g
            IN << [site |-> site, feedUrl |-> BALTIMORE_RSS_FEEDS[k].feedUrl] >>
       ELSE LET base == StripTrailingSlash(site)
            IN << [site |-> site, feedUrl |-> base \o <<"/feed/">>],
                  [site |-> site, feedUrl |-> base \o <<"/rss">>] >>

\* the candidates of one site: the inner loop of fetchAndCacheRSS
Candidates(site) ==
    LET hits == {k \in 1..Len(BALTIMORE_RSS_FEEDS) :
                     Includes(site, BALTIMORE_RSS_FEEDS[k].key)}
    IN IF hits # {}
       THEN LET k == CHOOSE h \in hits : \A g \in hits : h <= g
            IN << [site |-> site, feedUrl |-> BALTIMORE_RSS_FEEDS[k].feedUrl] >>
       ELSE LET base == StripTrailingSlash(site)
            IN << [site |-> site, feedUrl |-> base \o <<"/feed/">>],
                  [site |-> site, feedUrl |-> base \o <<"/rss">>] >>

\* feedsToFetch: the candidates of every saved site, flattened in order
RECURSIVE FeedsToFetch(_)
FeedsToFetch(savedSites) ==
    IF savedSites = <<>> THEN <<>>
    ELSE Candidates(Head(savedSites)) \o FeedsToFetch(Tail(savedSites))

\* ------------------------------------------------------------------------
\* JavaScript numbers: an integer value or NaN
\* ------------------------------------------------------------------------
Num(n) == [nan |-> FALSE, v |-> n]
NaN == [nan |-> TRUE, v |-> 0]

\* a - b
JsMinus(a, b) == IF a.nan \/ b.nan THEN NaN ELSE Num(a.v - b.v)

\* a < b: false whenever an operand is NaN
JsLess(a, b) == ~a.nan /\ ~b.nan /\ a.v < b.v

\* ------------------------------------------------------------------------
\* Publication dates: the raw pubDate text of an item
\* ------------------------------------------------------------------------
\* the empty string
PubEmpty == [kind |-> "empty", ms |-> 0]
\* a non-empty string that Date cannot parse
PubInvalid == [kind |-> "invalid", ms |-> 0]
\* a string that Date parses to the time t
PubAt(t) == [kind |-> "date", ms |-> t]

\* new Date(pubDate).getTime(): an unparseable string gives an Invalid Date,
\* whose time value is NaN; the constructor does not throw
DateGetTime(pubDate) ==
    IF pubDate.kind = "date" THEN Num(pubDate.ms) ELSE NaN

\* a filter that lets every item through
isRecent_NoWindow(pubDate, now) == TRUE

\* isRecent(pubDate), evaluated when Date.now() = now
isRecent(pubDate, now) ==
    IF pubDate.kind = "empty" THEN TRUE
    ELSE JsLess(JsMinus(Num(now), DateGetTime(pubDate)), Num(RecencyWindowMs))

\* ------------------------------------------------------------------------
\* Parser.  A feed document is the sequence of its <item>/<entry> blocks;
\* a block gives, for each tag the parser looks up, the text that get(tag)
\* extracts ("" or length 0 when the tag is missing or empty).
\* ------------------------------------------------------------------------
Block(title, pubDate, link) ==
    [title |-> title, description |-> 0, summary |-> 0, content |-> 0,
     link |-> link, href |-> "",
     pubDate |-> pubDate, published |-> PubEmpty, updated |-> PubEmpty]

\* a || b on strings / lengths / dates
OrStr(a, b) == IF a # "" THEN a ELSE b
OrLen(a, b) == IF a # 0 THEN a ELSE b
OrPub(a, b) == IF a.kind # "empty" THEN a ELSE b

\* the record built from one block
ParseBlock(b) ==
    [title |-> b.title,
     description |-> Min(OrLen(b.description, OrLen(b.summary, b.content)),
                         MaxDescriptionLen),
     link |-> OrStr(b.link, OrStr(b.href, "")),
     pubDate |-> OrPub(b.pubDate, OrPub(b.published, OrPub(b.updated, PubEmpty)))]

\* parseRSS(xml)
RECURSIVE parseRSS(_)
parseRSS(xml) ==
    IF xml = <<>> THEN <<>>
    ELSE LET item == ParseBlock(Head(xml))
         IN (IF item.title # "" THEN <<item>> ELSE <<>>) \o parseRSS(Tail(xml))

\* parseRSS(xml).filter(item => isRecent(item.pubDate)), tagged with source
RecentItems(xml, site, now) ==
    LET items == SelectSeq(parseRSS(xml), LAMBDA it : isRecent(it.pubDate, now))
    IN [i \in 1..Len(items) |->
          [title |-> items[i].title, description |-> items[i].description,
           link |-> items[i].link, pubDate |-> items[i].pubDate,
           source |-> site]]

\* ------------------------------------------------------------------------
\* The parser on feed markup.  Markup is a sequence of tokens: an opening tag
\* (with whatever attributes), a closing tag, a self-closing <link href=.../>,
\* the markers "<![CDATA[" and "]]>", a whitespace character, or a character
\* of text that is neither "<" nor ">".
\* ------------------------------------------------------------------------
Tok(k, v) == [k |-> k, v |-> v]
Open(tag) == Tok("open", tag)
Close(tag) == Tok("close", tag)
CDS == Tok("cds", "")
CDE == Tok("cde", "")
WS == Tok("ws", " ")
Text(c) == Tok("text", c)

\* the least element of a non-empty set of positions
Least(S) == CHOOSE i \in S : \A j \in S : i <= j

\* the tokens in which the character ">" occurs: they end with it
EndsTag(t) == t.k \in {"open", "close", "href", "cde"}

\* .replace(/<[^>]+>/g, ''): every stretch from a "<" to the next ">" goes;
\* that is a whole tag, or a "<![CDATA[" with everything up to the end of the
\* next token that holds a ">".  Stripped(s, p): the token at p is in such a
\* stretch
Stripped(s, p) ==
    \/ s[p].k \in {"open", "close", "href"}
    \/ \E i \in 1..p :
          /\ s[i].k = "cds"
          /\ \A m \in (i + 1)..(p - 1) : ~EndsTag(s[m])
          /\ \E j \in p..Len(s) : j > i /\ EndsTag(s[j])

StripTags(s) ==
    LET kept == SelectSeq([p \in 1..Len(s) |-> p], LAMBDA p : ~Stripped(s, p))
    IN [n \in 1..Len(kept) |-> s[kept[n]]]

\* String.prototype.trim on tokens
TrimText(s) ==
    LET inked == {i \in 1..Len(s) : s[i].k # "ws"}
    IN IF inked = {} THEN <<>>
       ELSE SubSeq(s, CHOOSE i \in inked : \A j \in inked : i <= j,
                      CHOOSE i \in inked : \A j \in inked : i >= j)

\* get(tag) inside one block: the leftmost match of the CDATA pattern, the
\* tag's opening directly followed by "<![CDATA[", up to the first "]]>" that
\* is directly followed by the tag's closing; failing that the leftmost match
\* of the plain pattern, up to the first closing of the tag; the captured
\* text stripped and trimmed; "" when neither matches
get(block, tag) ==
    LET cdataEnds(i) ==
            {k \in (i + 2)..(Len(block) - 1) :
                 block[k] = CDE /\ block[k + 1] = Close(tag)}
        cdata == {i \in 1..(Len(block) - 1) :
                     /\ block[i] = Open(tag)
                     /\ block[i + 1] = CDS
                     /\ cdataEnds(i) # {}}
        plainEnds(i) == {k \in (i + 1)..Len(block) : block[k] = Close(tag)}
        plain == {i \in 1..Len(block) :
                     block[i] = Open(tag) /\ plainEnds(i) # {}}
    IN IF cdata # {}
       THEN TrimText(StripTags(SubSeq(block, Least(cdata) + 2,
                                      Least(cdataEnds(Least(cdata))) - 1)))
       ELSE IF plain # {}
       THEN TrimText(StripTags(SubSeq(block, Least(plain) + 1,
                                      Least(plainEnds(Least(plain))) - 1)))
       ELSE <<>>

\* the matches of itemRegex, in order: from an opening <item> or <entry> to
\* the first closing </item> or </entry> after it
IsItemOpen(t) == t.k = "open" /\ t.v \in {"item", "entry"}
IsItemClose(t) == t.k = "close" /\ t.v \in {"item", "entry"}

RECURSIVE MatchBlocks(_)
MatchBlocks(xml) ==
    LET closes(i) == {j \in (i + 1)..Len(xml) : IsItemClose(xml[j])}
        opens == {i \in 1..Len(xml) : IsItemOpen(xml[i]) /\ closes(i) # {}}
    IN IF opens = {} THEN <<>>
       ELSE <<SubSeq(xml, Least(opens) + 1, Least(closes(Least(opens))) - 1)>>
                \o MatchBlocks(SubSeq(xml, Least(closes(Least(opens))) + 1, Len(xml)))

\* a || b on token strings
OrText(a, b) == IF a # <<>> THEN a ELSE b

\* (block.match(/href="([^"]+)"/) || [])[1] || ''
FirstHref(block) ==
    IF \E i \in 1..Len(block) : block[i].k = "href"
    THEN <<Text(block[Least({i \in 1..Len(block) : block[i].k = "href"})].v)>>
    ELSE <<>>

\* the body of the loop of parseRSS for one block: the record it pushes, in
\* a sequence that is empty when the title is empty
ItemOf(block) ==
    LET title == get(block, "title")
        description == OrText(get(block, "description"),
                              OrText(get(block, "summary"), get(block, "content")))
        link == OrText(get(block, "link"), FirstHref(block))
        pubDate == OrText(get(block, "pubDate"),
                          OrText(get(block, "published"), get(block, "updated")))
    IN IF title # <<>>
       THEN << [title |-> title,
                description |-> Slice(description, MaxDescriptionLen),
                link |-> link,
                pubDate |-> pubDate] >>
       ELSE <<>>

RECURSIVE ItemsOf(_)
ItemsOf(blocks) ==
    IF blocks = <<>> THEN <<>>
    ELSE ItemOf(Head(blocks)) \o ItemsOf(Tail(blocks))

\* parseRSS(xml) on markup
parseRSSMarkup(xml) == ItemsOf(MatchBlocks(xml))

\* ------------------------------------------------------------------------
\* Deduplication by title, first occurrence wins
\* ------------------------------------------------------------------------
RECURSIVE DedupFrom(_, _)
DedupFrom(items, seen) ==
    IF items = <<>> THEN <<>>
    ELSE IF Head(items).title \in seen THEN DedupFrom(Tail(items), seen)
    ELSE <<Head(items)>> \o DedupFrom(Tail(items), seen \cup {Head(items).title})

\* a merge that keeps every item
Unique_KeepAll(allItems) == allItems

\* const seen = new Set(); const unique = allItems.filter(...)
Unique(allItems) == DedupFrom(allItems, {})

\* ------------------------------------------------------------------------
\* The environment: what POST /api/sites is called with and what the feed
\* servers answer
\* ------------------------------------------------------------------------
\* the site lists a client saves
SiteInputs ==
    { <<SP, NL, SP, SP, NL>>,
      <<SP, "local.", "baltimoresun.com", "/news", SP, NL, NL, "wbal.com", NL,
        "example.org", "/">> }

\* pubDate values, relative to the clock at process start
Pub25h == PubAt(StartTime - 25 * HourMs)
Pub27h == PubAt(StartTime - 27 * HourMs)
\* inside the window until 10 seconds after process start
PubEdge == PubAt(StartTime - 26 * HourMs + 10 * 1000)

\* blocks titled ToString(lo) .. ToString(hi)
TitledBlocks(lo, hi, pubDate, link) ==
    [i \in 1..(hi - lo + 1) |-> Block(ToString(lo + i - 1), pubDate, link)]

\* the response bodies of the feed servers, by name
Document(name) ==
    IF name = "mixed"
    THEN << Block("1", Pub25h, "a"), Block("2", Pub27h, "a"),
            Block("3", PubEmpty, "a"), Block("4", PubInvalid, "a"),
            Block("", Pub25h, "a"), Block("5", PubEdge, "a"),
            Block("1", PubEmpty, "b"), Block("45", PubEmpty, "a") >>
    ELSE IF name = "big"
    THEN TitledBlocks(1, 50, PubEmpty, "c")
    ELSE IF name = "stale"
    THEN << Block("", Pub25h, "d"), Block("6", Pub27h, "d"),
            Block("", PubEmpty, "d") >>
    ELSE <<>>

\* the bodies a feed URL may answer with
Served(feedUrl) ==
    IF feedUrl = <<"https://", "www.baltimoresun.com/arcio/rss/">>
    THEN {"mixed"}
    ELSE IF feedUrl = <<"https://", "www.wbal.com/rss">>
    THEN {"big"}
    ELSE IF feedUrl = <<"https://", "wbal.com/rss">>
    THEN {"stale", "empty"}
    ELSE {"empty"}

\* the Location targets a feed URL may redirect to: the two hosts of one site
\* redirect to each other
RedirectsOf(url) ==
    IF url = <<"https://", "www.wbal.com/rss">>
    THEN { <<"https://", "wbal.com/rss">> }
    ELSE IF url = <<"https://", "wbal.com/rss">>
    THEN { <<"https://", "www.wbal.com/rss">> }
    ELSE {}

\* the messages of the errors a started request may fail with
TransportErrors == {"ECONNREFUSED", "Timeout"}

\* http.get / https.get throw on a URL without a scheme, which rejects the
\* promise of fetchUrl before any request is made
HasScheme(url) == url # <<>> /\ Head(url) \in {"http://", "https://"}

\* ------------------------------------------------------------------------
\* State
\* ------------------------------------------------------------------------
VARIABLES
    dataFile,        \* the parsed content of DATA_FILE; a missing key is <<>>
    now,             \* Date.now()
    startupPending,  \* the timer of setTimeout(fetchAndCacheRSS, 5000) is armed
    passes,          \* the calls of fetchAndCacheRSS with work outstanding
    launches,        \* number of calls that got past the site check
    publisher,       \* history: the call that wrote dataFile.rssCache, as it
                     \* was when it wrote; <<>> before the first write
    refreshes,       \* number of POST /api/rss/refresh requests served
    response,        \* the response of the last callback run if that was a
                     \* handler of /api/rss or /api/rss/refresh, else <<>>
    probe            \* a call of a pure function on its own: its argument
                     \* and result; <<>> when the server runs

vars == <<dataFile, now, startupPending, passes, launches, publisher,
          refreshes, response, probe>>

\* readData(): the parsed file, {} when it does not exist
readData == dataFile

\* data.rssCache || { items: [], fetchedAt: null, errors: [] }
DefaultCache == [items |-> <<>>, fetchedAt |-> <<>>, errors |-> <<>>]

\* a response; launched is the number of passes launched when it was sent
Responded(op, status, body, launched) ==
    <<[op |-> op, status |-> status, body |-> body, launched |-> launched]>>
RefreshAck == [ok |-> TRUE, message |-> "RSS refresh started in background."]

\* ------------------------------------------------------------------------
\* One aggregation pass
\* ------------------------------------------------------------------------
AllSettled(p) == \A f \in 1..Len(p.feeds) : p.settled[f]

\* a snapshot that is not truncated
BuildSnapshot_NoCap(allItems, errors, t) ==
    [items |-> Unique(allItems), fetchedAt |-> <<t>>, errors |-> errors]

\* the snapshot fetchAndCacheRSS builds after Promise.allSettled
BuildSnapshot(allItems, errors, t) ==
    [items |-> Slice(Unique(allItems), MaxCachedItems),
     fetchedAt |-> <<t>>,
     errors |-> errors]

\* a continuation that adds its errors to those of the snapshot it replaces
Continue_Merge(p, data, t) ==
    IF (\A f \in 1..Len(p.feeds) : p.settled[f]) /\ p.snapshot = <<>>
    THEN LET old == IF data.rssCache = <<>> THEN <<>> ELSE data.rssCache[1].errors
             snap == [BuildSnapshot(p.allItems, p.errors, t)
                          EXCEPT !.errors = old \o p.errors]
         IN [pass |-> [p EXCEPT !.snapshot = <<snap>>],
             data |-> [data EXCEPT !.rssCache = <<snap>>],
             published |-> TRUE]
    ELSE [pass |-> p, data |-> data, published |-> FALSE]

\* a continuation that leaves a snapshot that is already stored in place
Continue_FirstWins(p, data, t) ==
    IF (\A f \in 1..Len(p.feeds) : p.settled[f]) /\ p.snapshot = <<>>
    THEN LET snap == BuildSnapshot(p.allItems, p.errors, t)
         IN [pass |-> [p EXCEPT !.snapshot = <<snap>>],
             data |-> IF data.rssCache = <<>>
                      THEN [data EXCEPT !.rssCache = <<snap>>]
                      ELSE data,
             published |-> TRUE]
    ELSE [pass |-> p, data |-> data, published |-> FALSE]

\* a continuation that writes a file which holds the snapshot and nothing else
Continue_CacheOnly(p, data, t) ==
    IF (\A f \in 1..Len(p.feeds) : p.settled[f]) /\ p.snapshot = <<>>
    THEN LET snap == BuildSnapshot(p.allItems, p.errors, t)
         IN [pass |-> [p EXCEPT !.snapshot = <<snap>>],
             data |-> [sites |-> <<>>, rssCache |-> <<snap>>],
             published |-> TRUE]
    ELSE [pass |-> p, data |-> data, published |-> FALSE]

\* a continuation that runs again whenever a request of the pass ends
Continue_Republish(p, data, t) ==
    IF \A f \in 1..Len(p.feeds) : p.settled[f]
    THEN LET snap == BuildSnapshot(p.allItems, p.errors, t)
         IN [pass |-> [p EXCEPT !.snapshot = <<snap>>],
             data |-> [data EXCEPT !.rssCache = <<snap>>],
             published |-> TRUE]
    ELSE [pass |-> p, data |-> data, published |-> FALSE]

\* the continuation after Promise.allSettled: runs in the same turn as the
\* settling of the last feed operation, once per pass
Continue(p, data, t) ==
    IF AllSettled(p) /\ p.snapshot = <<>>
    THEN LET snap == BuildSnapshot(p.allItems, p.errors, t)
         IN [pass |-> [p EXCEPT !.snapshot = <<snap>>],
             data |-> [data EXCEPT !.rssCache = <<snap>>],
             published |-> TRUE]
    ELSE [pass |-> p, data |-> data, published |-> FALSE]

\* a call whose snapshot is written and whose requests have all ended has
\* nothing left to do: its closure is dropped
Finished(p) ==
    /\ p.snapshot # <<>>
    /\ \A f \in 1..Len(p.feeds) : p.fetch[f].state # "inflight"

Retire(ps) == SelectSeq(ps, LAMBDA q : ~Finished(q))

\* the state after a step that took pass p of the calls ps to c.pass
Step(ps, p, c) ==
    /\ passes' = Retire([ps EXCEPT ![p] = c.pass])
    /\ dataFile' = c.data
    /\ publisher' = IF c.published THEN <<c.pass>> ELSE publisher

\* the error entries pushed, in feed order, by the feeds whose fetchUrl throws
RECURSIVE LaunchErrors(_)
LaunchErrors(feeds) ==
    IF feeds = <<>> THEN <<>>
    ELSE (IF HasScheme(Head(feeds).feedUrl) THEN <<>>
          ELSE << [feedUrl |-> Head(feeds).feedUrl, message |-> "Invalid URL"] >>)
         \o LaunchErrors(Tail(feeds))

\* the pass right after feedsToFetch.map(fetchWithTimeout)
Launch(id, trigger, savedSites, t) ==
    LET feeds == FeedsToFetch(savedSites)
    IN [id |-> id,
        trigger |-> trigger,
        startedAt |-> t,
        feeds |-> feeds,
        fetch |-> [f \in 1..Len(feeds) |->
                     IF HasScheme(feeds[f].feedUrl)
                     THEN [state |-> "inflight", url |-> feeds[f].feedUrl,
                           xml |-> "", message |-> ""]
                     ELSE [state |-> "rejected", url |-> feeds[f].feedUrl,
                           xml |-> "", message |-> "Invalid URL"]],
        settled |-> [f \in 1..Len(feeds) |-> ~HasScheme(feeds[f].feedUrl)],
        timedOut |-> [f \in 1..Len(feeds) |-> FALSE],
        allItems |-> <<>>,
        errors |-> LaunchErrors(feeds),
        snapshot |-> <<>>]

\* a pass that does not check the site list
fetchAndCacheRSS_NoCheck(trigger) ==
    LET data == readData
        savedSites == SavedSites(IF data.sites = <<>> THEN <<>> ELSE data.sites[1])
        c == Continue(Launch(launches + 1, trigger, savedSites, now), readData, now)
    IN /\ launches' = launches + 1
       /\ Step(Append(passes, c.pass), Len(passes) + 1, c)

\* fetchAndCacheRSS() up to its first suspension, and beyond it when every
\* feed operation has already settled.  (The site list, the launched pass and
\* its continuation are bound as elements of singleton sets, which makes
\* each of them a value that is computed once.)
fetchAndCacheRSS(trigger) ==
    \E savedSites \in {SavedSites(IF readData.sites = <<>> THEN <<>>
                                  ELSE readData.sites[1])} :
        IF savedSites = <<>>
        THEN UNCHANGED <<dataFile, passes, launches, publisher>>
        ELSE \E q \in {Launch(launches + 1, trigger, savedSites, now)} :
             \E c \in {Continue(q, readData, now)} :
                 /\ launches' = launches + 1
                 /\ Step(Append(passes, c.pass), Len(passes) + 1, c)

\* ------------------------------------------------------------------------
\* Initial state: the process has just started and DATA_FILE does not exist
\* ------------------------------------------------------------------------
Init ==
    /\ dataFile = [sites |-> <<>>, rssCache |-> <<>>]
    /\ now = StartTime
    /\ startupPending = TRUE
    /\ passes = <<>>
    /\ launches = 0
    /\ publisher = <<>>
    /\ refreshes = 0
    /\ response = <<>>
    /\ probe = <<>>

\* ------------------------------------------------------------------------
\* Timers that are due; the event loop runs them before time moves on
\* ------------------------------------------------------------------------
StartupDue == startupPending /\ now >= StartTime + StartupDelayMs

FeedTimersDue(p) ==
    /\ ~AllSettled(passes[p])
    /\ now >= passes[p].startedAt + FeedTimeoutMs

\* the socket of a request that got no answer has been idle for the
\* Transport's timeout
TransportTimeoutDue(p) ==
    /\ \E f \in 1..Len(passes[p].feeds) : passes[p].fetch[f].state = "inflight"
    /\ now >= passes[p].startedAt + TransportTimeoutMs

\* ------------------------------------------------------------------------
\* Actions
\* ------------------------------------------------------------------------
\* time passes
Tick ==
    /\ now < StartTime + MaxTicks * TickMs
    /\ ~StartupDue
    /\ \A p \in 1..Len(passes) : ~FeedTimersDue(p) /\ ~TransportTimeoutDue(p)
    /\ now' = now + TickMs
    /\ response' = <<>>
    /\ UNCHANGED <<dataFile, startupPending, passes, launches, publisher,
                   refreshes, probe>>

\* setTimeout(fetchAndCacheRSS, 5000) fires
Startup ==
    /\ StartupDue
    /\ startupPending' = FALSE
    /\ fetchAndCacheRSS("startup")
    /\ response' = <<>>
    /\ UNCHANGED <<now, refreshes, probe>>

\* a read that starts a pass
GetRss_Lazy ==
    /\ LET data == readData
           cache == IF data.rssCache = <<>> THEN DefaultCache ELSE data.rssCache[1]
       IN response' = Responded("GetRss", 200, cache, launches)
    /\ fetchAndCacheRSS("refresh")
    /\ UNCHANGED <<now, startupPending, refreshes, probe>>

\* app.get('/api/rss')
GetRss ==
    /\ LET data == readData
           cache == IF data.rssCache = <<>> THEN DefaultCache ELSE data.rssCache[1]
       IN response' = Responded("GetRss", 200, cache, launches)
    /\ UNCHANGED <<dataFile, now, startupPending, passes, launches, publisher,
                   refreshes, probe>>

\* a handler that responds after it has called fetchAndCacheRSS
PostRefresh_RespondsLast ==
    /\ refreshes < MaxRefreshes
    /\ refreshes' = refreshes + 1
    /\ fetchAndCacheRSS("refresh")
    /\ response' = Responded("PostRefresh", 200, RefreshAck, launches')
    /\ UNCHANGED <<now, startupPending, probe>>

\* app.post('/api/rss/refresh')
PostRefresh ==
    /\ refreshes < MaxRefreshes
    /\ refreshes' = refreshes + 1
    /\ response' = Responded("PostRefresh", 200, RefreshAck, launches)
    /\ fetchAndCacheRSS("refresh")
    /\ UNCHANGED <<now, startupPending, probe>>

\* a save of the site list that starts a pass
PostSites_StartsPass(sites) ==
    /\ response' = <<>>
    /\ LET savedSites == SavedSites(sites)
           c == Continue(Launch(launches + 1, "refresh", savedSites, now),
                         [readData EXCEPT !.sites = <<sites>>], now)
       IN /\ launches' = launches + 1
          /\ Step(Append(passes, c.pass), Len(passes) + 1, c)
    /\ UNCHANGED <<now, startupPending, refreshes, probe>>

\* a save of the site list that also names the sites of the passes in flight
PostSites_Retags(sites) ==
    /\ dataFile' = [readData EXCEPT !.sites = <<sites>>]
    /\ passes' = [p \in 1..Len(passes) |->
                     [passes[p] EXCEPT !.feeds =
                         [f \in 1..Len(passes[p].feeds) |->
                             [passes[p].feeds[f] EXCEPT !.site =
                                 IF SavedSites(sites) = <<>> THEN <<>>
                                 ELSE Head(SavedSites(sites))]]]]
    /\ response' = <<>>
    /\ UNCHANGED <<now, startupPending, launches, publisher, refreshes, probe>>

\* app.post('/api/sites') with a string body
PostSites(sites) ==
    /\ dataFile' = [readData EXCEPT !.sites = <<sites>>]
    /\ response' = <<>>
    /\ UNCHANGED <<now, startupPending, passes, launches, publisher, refreshes,
                   probe>>

\* app.post('/api/sites') with a body whose sites is not a string
PostSitesInvalid ==
    /\ response' = <<>>
    /\ UNCHANGED <<dataFile, now, startupPending, passes, launches, publisher,
                   refreshes, probe>>

\* a feed operation that reports a body without recent items as an error
FetchResolve_EmptyIsError(p, f, xml) ==
    /\ passes[p].fetch[f].state = "inflight"
    /\ LET q == passes[p]
           items == RecentItems(Document(xml), q.feeds[f].site, now)
           r == [q EXCEPT !.fetch[f].state = "resolved",
                          !.fetch[f].xml = xml,
                          !.allItems = q.allItems \o items,
                          !.errors = IF items = <<>>
                                     THEN Append(q.errors,
                                                 [feedUrl |-> q.feeds[f].feedUrl,
                                                  message |-> "No items"])
                                     ELSE q.errors,
                          !.settled[f] = TRUE]
           c == Continue(r, readData, now)
       IN Step(passes, p, c)
    /\ response' = <<>>
    /\ UNCHANGED <<now, startupPending, launches, refreshes, probe>>

\* a feed operation that appends its items and then fails
FetchResolve_ThenThrows(p, f, xml) ==
    /\ passes[p].fetch[f].state = "inflight"
    /\ LET q == passes[p]
           items == RecentItems(Document(xml), q.feeds[f].site, now)
           r == [q EXCEPT !.fetch[f].state = "resolved",
                          !.fetch[f].xml = xml,
                          !.allItems = q.allItems \o items,
                          !.errors = Append(q.errors,
                                            [feedUrl |-> q.feeds[f].feedUrl,
                                             message |-> "TypeError"]),
                          !.settled[f] = TRUE]
           c == Continue(r, readData, now)
       IN Step(passes, p, c)
    /\ response' = <<>>
    /\ UNCHANGED <<now, startupPending, launches, refreshes, probe>>

\* the request of feed f of pass p ends with a body: the rest of the try
\* block of fetchWithTimeout, its finally block, and the continuation of the
\* pass when this was the last feed operation to settle
FetchResolve(p, f, xml) ==
    /\ passes[p].fetch[f].state = "inflight"
    /\ LET q == passes[p]
           items == RecentItems(Document(xml), q.feeds[f].site, now)
           r == [q EXCEPT !.fetch[f].state = "resolved",
                          !.fetch[f].xml = xml,
                          !.allItems = q.allItems \o items,
                          !.settled[f] = TRUE]
           c == Continue(r, readData, now)
       IN Step(passes, p, c)
    /\ response' = <<>>
    /\ UNCHANGED <<now, startupPending, launches, refreshes, probe>>

\* the request of feed f of pass p is answered with a 3xx status and a
\* Location header: fetchUrl calls itself with the target and settles as that
\* call does.  A target without a scheme makes the inner call throw, which
\* rejects the promise awaited by fetchWithTimeout at once.
FetchRedirect(p, f, location) ==
    /\ passes[p].fetch[f].state = "inflight"
    /\ LET q == passes[p]
           r == IF HasScheme(location)
                THEN [q EXCEPT !.fetch[f].url = location]
                ELSE [q EXCEPT !.fetch[f].url = location,
                               !.fetch[f].state = "rejected",
                               !.fetch[f].message = "Invalid URL",
                               !.errors = Append(q.errors,
                                                 [feedUrl |-> q.feeds[f].feedUrl,
                                                  message |-> "Invalid URL"]),
                               !.settled[f] = TRUE]
           c == Continue(r, readData, now)
       IN Step(passes, p, c)
    /\ response' = <<>>
    /\ UNCHANGED <<now, startupPending, launches, refreshes, probe>>

\* a failure that discards what the pass has collected
FetchReject_Abort(p, f, message) ==
    /\ passes[p].fetch[f].state = "inflight"
    /\ message = "Timeout" => now >= passes[p].startedAt + TransportTimeoutMs
    /\ LET q == passes[p]
           r == [q EXCEPT !.fetch[f].state = "rejected",
                          !.fetch[f].message = message,
                          !.allItems = <<>>,
                          !.errors = Append(q.errors,
                                            [feedUrl |-> q.feeds[f].feedUrl,
                                             message |-> message]),
                          !.settled[f] = TRUE]
           c == Continue(r, readData, now)
       IN Step(passes, p, c)
    /\ response' = <<>>
    /\ UNCHANGED <<now, startupPending, launches, refreshes, probe>>

\* a failure that is not recorded
FetchReject_Swallow(p, f, message) ==
    /\ passes[p].fetch[f].state = "inflight"
    /\ message = "Timeout" => now >= passes[p].startedAt + TransportTimeoutMs
    /\ LET q == passes[p]
           r == [q EXCEPT !.fetch[f].state = "rejected",
                          !.fetch[f].message = message,
                          !.settled[f] = TRUE]
           c == Continue(r, readData, now)
       IN Step(passes, p, c)
    /\ response' = <<>>
    /\ UNCHANGED <<now, startupPending, launches, refreshes, probe>>

\* the request of feed f of pass p fails: the catch and finally blocks of
\* fetchWithTimeout, and the continuation of the pass.  The Transport's own
\* timeout runs TransportTimeoutMs after the request was made.
FetchReject(p, f, message) ==
    /\ passes[p].fetch[f].state = "inflight"
    /\ message = "Timeout" => now >= passes[p].startedAt + TransportTimeoutMs
    /\ LET q == passes[p]
           r == [q EXCEPT !.fetch[f].state = "rejected",
                          !.fetch[f].message = message,
                          !.errors = Append(q.errors,
                                            [feedUrl |-> q.feeds[f].feedUrl,
                                             message |-> message]),
                          !.settled[f] = TRUE]
           c == Continue(r, readData, now)
       IN Step(passes, p, c)
    /\ response' = <<>>
    /\ UNCHANGED <<now, startupPending, launches, refreshes, probe>>

\* timers that fire one per turn of the event loop, so that a request can end
\* between the timers of two feeds of one pass
FeedTimersFire_OneAtATime(p) ==
    /\ FeedTimersDue(p)
    /\ LET q == passes[p]
           g == CHOOSE f \in 1..Len(q.feeds) :
                    ~q.settled[f] /\ \A h \in 1..(f - 1) : q.settled[h]
           r == [q EXCEPT !.timedOut[g] = TRUE, !.settled[g] = TRUE]
           c == Continue(r, readData, now)
       IN Step(passes, p, c)
    /\ response' = <<>>
    /\ UNCHANGED <<now, startupPending, launches, refreshes, probe>>

\* timers that note that they fired and leave the slot of the feed pending
FeedTimersFire_NoSettle(p) ==
    /\ FeedTimersDue(p)
    /\ LET q == passes[p]
           r == [q EXCEPT !.timedOut = [f \in 1..Len(q.feeds) |-> ~q.settled[f]]]
           c == Continue(r, readData, now)
       IN Step(passes, p, c)
    /\ response' = <<>>
    /\ UNCHANGED <<now, startupPending, launches, refreshes, probe>>

\* the per-feed timers of pass p fire.  They were armed in one turn with the
\* same delay, so they run back to back in one timers phase, with no I/O
\* callback in between; each resolves the slot of a feed operation that has
\* not settled, and the pass continues after the last of them.
FeedTimersFire(p) ==
    /\ FeedTimersDue(p)
    /\ LET q == passes[p]
           r == [q EXCEPT !.timedOut = [f \in 1..Len(q.feeds) |-> ~q.settled[f]],
                          !.settled = [f \in 1..Len(q.feeds) |-> TRUE]]
       IN \E c \in {Continue(r, readData, now)} : Step(passes, p, c)
    /\ response' = <<>>
    /\ UNCHANGED <<now, startupPending, launches, refreshes, probe>>

Next ==
    \/ Tick
    \/ Startup
    \/ GetRss
    \/ PostRefresh
    \/ \E sites \in SiteInputs : PostSites(sites)
    \/ PostSitesInvalid
    \/ \E p \in 1..Len(passes) : \E f \in 1..Len(passes[p].feeds) :
          \E xml \in Served(passes[p].fetch[f].url) : FetchResolve(p, f, xml)
    \/ \E p \in 1..Len(passes) : \E f \in 1..Len(passes[p].feeds) :
          \E message \in TransportErrors : FetchReject(p, f, message)
    \/ \E p \in 1..Len(passes) : \E f \in 1..Len(passes[p].feeds) :
          \E location \in RedirectsOf(passes[p].fetch[f].url) :
              FetchRedirect(p, f, location)
    \/ \E p \in 1..Len(passes) : FeedTimersFire(p)

Spec == Init /\ [][Next]_vars

\* ------------------------------------------------------------------------
\* The recency filter on its own: isRecent applied to one pubDate at the
\* current time, in a server that has nothing else to do
\* ------------------------------------------------------------------------
\* the ages, in hours before process start, of the dated arguments
ProbeAges == {0, 25, 26, 27}
\* their offsets from the full hour, in milliseconds
ProbeOffsets == {-1, 0, 1}

ProbeDates ==
    {PubEmpty, PubInvalid}
        \cup {PubAt(StartTime - a * HourMs + o) : a \in ProbeAges, o \in ProbeOffsets}

FilterInit ==
    /\ dataFile = [sites |-> <<>>, rssCache |-> <<>>]
    /\ now = StartTime
    /\ startupPending = FALSE
    /\ passes = <<>>
    /\ launches = 0
    /\ publisher = <<>>
    /\ refreshes = 0
    /\ response = <<>>
    /\ probe \in {[pubDate |-> d, at |-> StartTime, result |-> <<>>] : d \in ProbeDates}

\* isRecent(probe.pubDate) is called now
CallIsRecent ==
    /\ probe # <<>>
    /\ probe' = [probe EXCEPT !.at = now,
                              !.result = <<isRecent(probe.pubDate, now)>>]
    /\ UNCHANGED <<dataFile, now, startupPending, passes, launches, publisher,
                   refreshes, response>>

FilterNext == Tick \/ CallIsRecent

FilterSpec == FilterInit /\ [][FilterNext]_vars

\* ------------------------------------------------------------------------
\* The feed locator on its own: the candidates of one site and the feed
\* operations that a pass launches for a site list that holds just that site
\* ------------------------------------------------------------------------
\* what may stand before, in and after the host name of a configured site
SitePrefixes == { <<>>, <<"local.">>, <<"https://", "www.">> }
SiteCores ==
    {BALTIMORE_RSS_FEEDS[k].key : k \in 1..Len(BALTIMORE_RSS_FEEDS)}
        \cup { <<"example.org">>, <<"cbsnews.com">>, <<"technical.ly", "/">>,
               <<"wbal.com", SP, "baltimoresun.com">>,
               <<"wmar2news.com", "/", "wbaltv.com">> }
SiteSuffixes == { <<>>, <<"/">>, <<"/news">>, <<"/", "/">> }

ProbeSites ==
    {pre \o core \o suf : pre \in SitePrefixes, core \in SiteCores,
                          suf \in SiteSuffixes}

LocatorInit ==
    /\ dataFile = [sites |-> <<>>, rssCache |-> <<>>]
    /\ now = StartTime
    /\ startupPending = FALSE
    /\ passes = <<>>
    /\ launches = 0
    /\ publisher = <<>>
    /\ refreshes = 0
    /\ response = <<>>
    /\ probe \in {[site |-> site, result |-> <<>>] : site \in ProbeSites}

\* the locator loop runs for probe.site, and fetchWithTimeout is mapped over
\* what it pushed
CallLocator ==
    /\ probe # <<>>
    /\ probe.result = <<>>
    /\ LET q == Launch(1, "probe", <<probe.site>>, now)
       IN probe' = [probe EXCEPT !.result =
                       << [candidates |-> Candidates(probe.site),
                           operations |-> [f \in 1..Len(q.fetch) |-> q.fetch[f].url]] >>]
    /\ UNCHANGED <<dataFile, now, startupPending, passes, launches, publisher,
                   refreshes, response>>

LocatorNext == CallLocator

LocatorSpec == LocatorInit /\ [][LocatorNext]_vars

\* ------------------------------------------------------------------------
\* The parser on its own: parseRSS applied to one feed document.  A document
\* is given by what its publisher put in each block (the wrapper, and for the
\* title and the description how the element is written and what it holds),
\* and by the markup that this is on the wire.
\* ------------------------------------------------------------------------
\* the length of the long description
LongLen == 501

\* how an element is written: left out, as text, as a CDATA section directly
\* between its tags, or as a CDATA section on a line of its own
FieldForms == {"plain", "cdata", "padded"}

\* what a title holds, for a title of text c
TitleContents(c) ==
    { << Text(c) >>,
      << Open("b"), Text(c), Close("b") >>,
      << WS, Text(c), WS >>,
      << >>,
      << WS >>,
      << Open("b"), Close("b") >> }

\* what a description holds
DescriptionContents ==
    { << Text("d") >>,
      << Text("d"), Open("br"), Text("e") >>,
      [i \in 1..LongLen |-> Text("x")] }

Absent == [form |-> "absent", content |-> <<>>]

TitleFields(c) ==
    {Absent} \cup {[form |-> f, content |-> t] : f \in FieldForms, t \in TitleContents(c)}

DescriptionFields ==
    {Absent} \cup {[form |-> f, content |-> t] : f \in FieldForms, t \in DescriptionContents}

\* the markup of an element
Field(tag, field) ==
    CASE field.form = "absent" -> <<>>
      [] field.form = "plain" -> <<Open(tag)>> \o field.content \o <<Close(tag)>>
      [] field.form = "cdata" ->
            <<Open(tag), CDS>> \o field.content \o <<CDE, Close(tag)>>
      [] field.form = "padded" ->
            <<Open(tag), WS, CDS>> \o field.content \o <<CDE, WS, Close(tag)>>

\* the markup of a block
BlockMarkup(b) ==
    <<Open(b.wrap), WS>> \o Field("title", b.title) \o <<WS>>
        \o Field("description", b.description) \o <<WS, Close(b.wrap)>>

\* the markup of a document: the channel's own title, then the blocks
RECURSIVE BlocksMarkup(_)
BlocksMarkup(bs) ==
    IF bs = <<>> THEN <<>>
    ELSE BlockMarkup(Head(bs)) \o <<WS>> \o BlocksMarkup(Tail(bs))

Markup(bs) ==
    <<Open("channel"), Open("title"), Text("F"), Close("title"), WS>>
        \o BlocksMarkup(bs) \o <<Close("channel")>>

\* the blocks of the documents of one block: every way of writing the title
\* and the description
SingleBlocks ==
    {[wrap |-> w, title |-> t, description |-> d] :
         w \in {"item", "entry"}, t \in TitleFields("A"), d \in DescriptionFields}

\* the second block of the documents of two: a plainly titled block, or one
\* whose title is absent or padded, with a short description in every form
SecondBlocks ==
    {[wrap |-> "item", title |-> t, description |-> d] :
         t \in {Absent, [form |-> "plain", content |-> <<Text("B")>>],
                        [form |-> "padded", content |-> <<Text("B")>>]},
         d \in {[form |-> f, content |-> <<Text("d"), Open("br"), Text("e")>>] :
                    f \in FieldForms}}

FirstBlocks ==
    {b \in SingleBlocks :
         /\ b.wrap = "entry"
         /\ b.title.form \in {"absent", "plain", "cdata"}
         /\ b.title.content \in {<<>>, <<Text("A")>>}
         /\ b.description.content \in {<<>>, <<Text("d"), Open("br"), Text("e")>>}}

ProbeDocuments ==
    {<<b>> : b \in SingleBlocks} \cup {<<a, b>> : a \in FirstBlocks, b \in SecondBlocks}

ParserInit ==
    /\ dataFile = [sites |-> <<>>, rssCache |-> <<>>]
    /\ now = StartTime
    /\ startupPending = FALSE
    /\ passes = <<>>
    /\ launches = 0
    /\ publisher = <<>>
    /\ refreshes = 0
    /\ response = <<>>
    /\ probe \in {[blocks |-> bs, xml |-> Markup(bs), result |-> <<>>] :
                      bs \in ProbeDocuments}

\* parseRSS(probe.xml) is called
CallParseRSS ==
    /\ probe # <<>>
    /\ probe.result = <<>>
    /\ probe' = [probe EXCEPT !.result = << parseRSSMarkup(probe.xml) >>]
    /\ UNCHANGED <<dataFile, now, startupPending, passes, launches, publisher,
                   refreshes, response>>

ParserNext == CallParseRSS

ParserSpec == ParserInit /\ [][ParserNext]_vars

\* ------------------------------------------------------------------------
\* The Transport on its own: one call of fetchUrl.  probe.chain holds the
\* requests the call has made, one per hop; probe.outcome is how the promise
\* that the call returned has settled.  Every hop has a promise of its own
\* that settles the promise of the hop before it, so the first hop to settle
\* anything settles the call.
\* ------------------------------------------------------------------------
\* the number of hops after which the servers stop redirecting
MaxHops == 4

OldFeed == <<"http://", "old.example.org/feed">>

\* the URLs fetchUrl is called with: a feed that answers, a host that
\* redirects in a cycle, a feed that has moved, and a URL without a scheme
ProbeUrls ==
    { <<"https://", "www.baltimoresun.com/arcio/rss/">>,
      <<"https://", "www.wbal.com/rss">>,
      OldFeed,
      <<"example.org/rss">> }

\* the Location targets of a URL: the moved feed points to a feed that
\* answers, or gives the path only
Locations(url) ==
    IF url = OldFeed
    THEN { <<"https://", "www.baltimoresun.com/arcio/rss/">>, <<"/feed/">> }
    ELSE RedirectsOf(url)

\* a hop: its URL, when its socket was last active, where it stands, and the
\* body it ended with or the message of the error it failed with
Hop(url, state) == [url |-> url, at |-> now, state |-> state, message |-> ""]

\* the call's promise settles once
Settle(outcome) == IF probe.outcome = <<>> THEN <<outcome>> ELSE probe.outcome

\* fetchUrl(url) in the middle of a chain or at its start: the request is
\* made, or get() throws on a URL without a scheme and the promise of this
\* hop is rejected at once
Request(chain, url) ==
    IF HasScheme(url)
    THEN [chain |-> Append(chain, Hop(url, "open")), outcome |-> probe.outcome]
    ELSE [chain |-> Append(chain, [Hop(url, "failed") EXCEPT !.message = "Invalid URL"]),
          outcome |-> Settle([kind |-> "rejected", value |-> "Invalid URL",
                              hop |-> Len(chain) + 1])]

TransportCalled == probe # <<>> /\ probe.chain # <<>>

\* the hop whose request is waiting for its response
OpenHop ==
    /\ TransportCalled
    /\ probe.chain[Len(probe.chain)].state = "open"

TransportInit ==
    /\ dataFile = [sites |-> <<>>, rssCache |-> <<>>]
    /\ now = StartTime
    /\ startupPending = FALSE
    /\ passes = <<>>
    /\ launches = 0
    /\ publisher = <<>>
    /\ refreshes = 0
    /\ response = <<>>
    /\ probe \in {[url |-> u, chain |-> <<>>, outcome |-> <<>>] : u \in ProbeUrls}

\* fetchUrl(probe.url) is called
CallFetchUrl ==
    /\ probe # <<>>
    /\ probe.chain = <<>>
    /\ LET r == Request(<<>>, probe.url)
       IN probe' = [probe EXCEPT !.chain = r.chain, !.outcome = r.outcome]
    /\ UNCHANGED <<dataFile, now, startupPending, passes, launches, publisher,
                   refreshes, response>>

\* the response of the open hop is not a redirect and has ended:
\* resolve(data)
HopEnd(body) ==
    /\ OpenHop
    /\ LET n == Len(probe.chain)
       IN probe' = [probe EXCEPT
              !.chain[n].state = "ended",
              !.chain[n].message = body,
              !.outcome = Settle([kind |-> "resolved", value |-> body, hop |-> n])]
    /\ UNCHANGED <<dataFile, now, startupPending, passes, launches, publisher,
                   refreshes, response>>

\* the response of the open hop has a 3xx status and a Location header:
\* fetchUrl(res.headers.location).then(resolve).catch(reject); the response
\* itself is left unread, so the request keeps its socket
HopRedirect(location) ==
    /\ OpenHop
    /\ Len(probe.chain) < MaxHops
    /\ LET n == Len(probe.chain)
           r == Request([probe.chain EXCEPT ![n].state = "redirected", ![n].at = now],
                        location)
       IN probe' = [probe EXCEPT !.chain = r.chain, !.outcome = r.outcome]
    /\ UNCHANGED <<dataFile, now, startupPending, passes, launches, publisher,
                   refreshes, response>>

\* the request of the open hop fails: req.on('error', reject), or its
\* socket has been idle for the timeout and req.on('timeout') rejects
HopFail(message) ==
    /\ OpenHop
    /\ LET n == Len(probe.chain)
       IN /\ message = "Timeout" => now >= probe.chain[n].at + TransportTimeoutMs
          /\ probe' = [probe EXCEPT
                 !.chain[n].state = "failed",
                 !.chain[n].message = message,
                 !.outcome = Settle([kind |-> "rejected", value |-> message,
                                     hop |-> n])]
    /\ UNCHANGED <<dataFile, now, startupPending, passes, launches, publisher,
                   refreshes, response>>

\* the socket of a hop that was answered with a redirect is still open, and
\* has been idle for the timeout: req.on('timeout') of that hop destroys the
\* request and rejects the promise of that hop
AbandonedHopTimeout(h) ==
    /\ TransportCalled
    /\ h \in 1..Len(probe.chain)
    /\ probe.chain[h].state = "redirected"
    /\ now >= probe.chain[h].at + TransportTimeoutMs
    /\ probe' = [probe EXCEPT
           !.chain[h].state = "lapsed",
           !.chain[h].message = "Timeout",
           !.outcome = Settle([kind |-> "rejected", value |-> "Timeout", hop |-> h])]
    /\ UNCHANGED <<dataFile, now, startupPending, passes, launches, publisher,
                   refreshes, response>>

\* the server closes the connection of a hop that it answered with a
\* redirect: the request has its response, so nothing is emitted on it
AbandonedHopClose(h) ==
    /\ TransportCalled
    /\ h \in 1..Len(probe.chain)
    /\ probe.chain[h].state = "redirected"
    /\ probe' = [probe EXCEPT !.chain[h].state = "dropped"]
    /\ UNCHANGED <<dataFile, now, startupPending, passes, launches, publisher,
                   refreshes, response>>

\* the URL of the last hop
HopUrl == IF TransportCalled THEN probe.chain[Len(probe.chain)].url ELSE <<>>

TransportNext ==
    \/ Tick
    \/ CallFetchUrl
    \/ \E body \in Served(HopUrl) : HopEnd(body)
    \/ \E location \in Locations(HopUrl) : HopRedirect(location)
    \/ \E message \in TransportErrors : HopFail(message)
    \/ \E h \in 1..MaxHops : AbandonedHopTimeout(h)
    \/ \E h \in 1..MaxHops : AbandonedHopClose(h)

TransportSpec == TransportInit /\ [][TransportNext]_vars

\* ------------------------------------------------------------------------
\* The server started with a data file in which the site list
\* "baltimoresun.com\nexample.org" is saved
\* ------------------------------------------------------------------------
EndToEndInit ==
    /\ dataFile = [sites |-> << <<"baltimoresun.com", NL, "example.org">> >>,
                   rssCache |-> <<>>]
    /\ now = StartTime
    /\ startupPending = TRUE
    /\ passes = <<>>
    /\ launches = 0
    /\ publisher = <<>>
    /\ refreshes = 0
    /\ response = <<>>
    /\ probe = <<>>

EndToEndNext ==
    \/ Tick
    \/ Startup
    \/ GetRss
    \/ PostRefresh
    \/ \E p \in 1..Len(passes) : \E f \in 1..Len(passes[p].feeds) :
          \E xml \in Served(passes[p].fetch[f].url) : FetchResolve(p, f, xml)
    \/ \E p \in 1..Len(passes) : \E f \in 1..Len(passes[p].feeds) :
          \E message \in TransportErrors : FetchReject(p, f, message)
    \/ \E p \in 1..Len(passes) : FeedTimersFire(p)

EndToEndSpec == EndToEndInit /\ [][EndToEndNext]_vars

\* ------------------------------------------------------------------------
\* The server started with a data file in which two of the saved sites are
\* pages of one publisher, which the table maps to one feed URL, and a third
\* site is not in the table
\* ------------------------------------------------------------------------
SharedFeedInit ==
    /\ dataFile = [sites |-> << <<"baltimoresun.com", NL,
                                  "baltimoresun.com", "/sports", NL,
                                  "https://", "example.org">> >>,
                   rssCache |-> <<>>]
    /\ now = StartTime
    /\ startupPending = TRUE
    /\ passes = <<>>
    /\ launches = 0
    /\ publisher = <<>>
    /\ refreshes = 0
    /\ response = <<>>
    /\ probe = <<>>

SharedFeedNext ==
    \/ Tick
    \/ Startup
    \/ GetRss
    \/ \E p \in 1..Len(passes) : \E f \in 1..Len(passes[p].feeds) :
          \E xml \in Served(passes[p].fetch[f].url) : FetchResolve(p, f, xml)
    \/ \E p \in 1..Len(passes) : \E f \in 1..Len(passes[p].feeds) :
          \E message \in TransportErrors : FetchReject(p, f, message)
    \/ \E p \in 1..Len(passes) : FeedTimersFire(p)

SharedFeedSpec == SharedFeedInit /\ [][SharedFeedNext]_vars

\* ------------------------------------------------------------------------
\* The server with requests that may never end: a connection on which bytes
\* keep trickling in never trips the Transport's idle timeout, and a chain of
\* redirects starts a new request at every hop.  The process starts with a
\* data file left by an earlier run, in which a site list is saved; a client
\* may ask for a refresh as soon as the process is up.  Time runs on for as
\* long as a pass waits for its feed operations, and the event loop runs the
\* timers that are due.
\* ------------------------------------------------------------------------
LiveInit ==
    /\ dataFile = [sites |-> << <<"local.", "baltimoresun.com", "/news", NL,
                                  "wbal.com", NL, "example.org", "/">> >>,
                   rssCache |-> <<>>]
    /\ now = StartTime
    /\ startupPending = TRUE
    /\ passes = <<>>
    /\ launches = 0
    /\ publisher = <<>>
    /\ refreshes = 0
    /\ response = <<>>
    /\ probe = <<>>

\* time passes, also while a request has been outstanding for longer than
\* the Transport's timeout
Wait ==
    /\ \/ now < StartTime + MaxTicks * TickMs
       \/ \E p \in 1..Len(passes) : ~AllSettled(passes[p])
    /\ ~StartupDue
    /\ \A p \in 1..Len(passes) : ~FeedTimersDue(p)
    /\ now' = now + TickMs
    /\ response' = <<>>
    /\ UNCHANGED <<dataFile, startupPending, passes, launches, publisher,
                   refreshes, probe>>

\* a refresh request that arrives right after process start
EarlyRefresh == now = StartTime /\ PostRefresh

TimersFire == \E p \in 1..Len(passes) : FeedTimersFire(p)

LiveNext ==
    \/ Wait
    \/ Startup
    \/ EarlyRefresh
    \/ \E p \in 1..Len(passes) : \E f \in 1..Len(passes[p].feeds) :
          \E xml \in Served(passes[p].fetch[f].url) : FetchResolve(p, f, xml)
    \/ \E p \in 1..Len(passes) : \E f \in 1..Len(passes[p].feeds) :
          \E message \in TransportErrors : FetchReject(p, f, message)
    \/ \E p \in 1..Len(passes) : \E f \in 1..Len(passes[p].feeds) :
          \E location \in RedirectsOf(passes[p].fetch[f].url) :
              FetchRedirect(p, f, location)
    \/ TimersFire

\* timers that are due run, and time does not stop while none is due
LiveSpec ==
    /\ LiveInit
    /\ [][LiveNext]_vars
    /\ WF_vars(Wait)
    /\ WF_vars(Startup)
    /\ WF_vars(TimersFire)

\* ------------------------------------------------------------------------
\* Vocabulary of the properties
\* ------------------------------------------------------------------------
Published == dataFile.rssCache # <<>>
\* the stored snapshot, and the call that wrote it as it was at that moment
Snapshot == dataFile.rssCache[1]
Writer == publisher[1]

Titles(items) == {items[i].title : i \in 1..Len(items)}

\* the positions of a collection that hold the first item of their title
FirstOccurrences(all) ==
    {i \in 1..Len(all) : \A j \in 1..(i - 1) : all[j].title # all[i].title}

\* the positions of the first items of the distinct titles, ascending
FirstPositions(all) ==
    LET first == FirstOccurrences(all)
    IN SelectSeq([i \in 1..Len(all) |-> i], LAMBDA i : i \in first)

\* the stored snapshot is the one the recorded writer wrote
WriterRecorded ==
    Published => publisher # <<>> /\ Writer.snapshot = <<Snapshot>>

\* C1: the stored snapshot never holds more than 40 items; it holds the items
\* of the first 40 distinct titles of the writer's merged collection, in the
\* order in which they were appended (all of them when there are fewer)
C1_AtMostFortyItems ==
    Published =>
        LET pos == FirstPositions(Writer.allItems)
        IN /\ WriterRecorded
           /\ Len(Snapshot.items) <= 40
           /\ Len(Snapshot.items) = Min(Len(pos), 40)
           /\ \A k \in 1..Len(Snapshot.items) :
                  Snapshot.items[k] = Writer.allItems[pos[k]]

\* a pass merged 50 distinct titles and its snapshot holds exactly 40 items
C1_Witness ==
    /\ Published
    /\ publisher # <<>>
    /\ Cardinality(Titles(Writer.allItems)) = 50
    /\ Len(Snapshot.items) = 40

Admissible(pubDate, t) ==
    \/ pubDate.kind = "empty"
    \/ pubDate.kind = "invalid"
    \/ pubDate.kind = "date" /\ t - pubDate.ms < 26 * 60 * 60 * 1000

\* C3: isRecent includes a pubDate exactly when it is empty, or unparseable,
\* or less than 26 hours before now
C3_IncludedIffAdmissible ==
    (probe # <<>> /\ probe.result # <<>>)
        => (probe.result[1] <=> Admissible(probe.pubDate, probe.at))

\* the items of the pass with this id before the step
ItemsBefore(id) ==
    IF \E p \in Range(passes) : p.id = id
    THEN (CHOOSE p \in Range(passes) : p.id = id).allItems
    ELSE <<>>

\* the items a step appends to the collection of a pass are admissible at
\* the time of the step
AppendsAdmissible ==
    \A r \in Range(passes') \cup (IF publisher' # publisher THEN {publisher'[1]} ELSE {}) :
        \A k \in (Len(ItemsBefore(r.id)) + 1)..Len(r.allItems) :
            Admissible(r.allItems[k].pubDate, now)

\* C4: every item of the stored snapshot was appended to the collection of
\* the pass that wrote it, and every item appended to a collection had an
\* empty or unparseable pubDate or one less than 26 hours old at that moment
C4_SnapshotItemsPassedFilter ==
    /\ [](Published =>
            WriterRecorded /\ Range(Snapshot.items) \subseteq Range(Writer.allItems))
    /\ [][AppendsAdmissible]_vars

\* the snapshot holds a dated item that was inside the window when its feed
\* was filtered and is outside it when the snapshot is written
C4_Witness ==
    /\ Published
    /\ \E k \in 1..Len(Snapshot.items) :
          /\ Snapshot.items[k].pubDate.kind = "date"
          /\ ~Admissible(Snapshot.items[k].pubDate, Snapshot.fetchedAt[1])

\* the stored site list is empty or holds nothing but blanks and newlines
NoSiteSaved ==
    dataFile.sites = <<>> \/ \A i \in 1..Len(dataFile.sites[1]) :
                                 dataFile.sites[1][i] \in {" ", "\n"}

\* a step that starts fetchAndCacheRSS: the startup timer or a refresh request
PassTriggered == (startupPending /\ ~startupPending') \/ refreshes' = refreshes + 1

\* C5: a pass triggered while no site is saved launches nothing and leaves
\* the data file, and with it the stored snapshot, as it was
C5_NoSitesNoChange ==
    [][(PassTriggered /\ NoSiteSaved)
          => /\ dataFile' = dataFile
             /\ passes' = passes
             /\ launches' = launches
             /\ publisher' = publisher]_vars

\* a refresh request was served while a snapshot was stored and only blank
\* lines were saved, and it launched nothing
C5_Witness ==
    /\ Published
    /\ NoSiteSaved
    /\ dataFile.sites # <<>>
    /\ response # <<>>
    /\ response[1].op = "PostRefresh"
    /\ response[1].launched = launches

\* C6: a read answers with the stored snapshot, or with the empty default
\* when there is none, and changes nothing but the response: no pass is
\* launched and the data file is as before
C6_ReadOnlyRead ==
    [][(response' # <<>> /\ response'[1].op = "GetRss")
          => /\ response'[1].status = 200
             /\ response'[1].body =
                    IF dataFile.rssCache = <<>>
                    THEN [items |-> <<>>, fetchedAt |-> <<>>, errors |-> <<>>]
                    ELSE dataFile.rssCache[1]
             /\ UNCHANGED <<dataFile, passes, launches, publisher,
                            startupPending, refreshes, now>>]_vars

\* a read was answered with a stored snapshot while a pass was in flight
C6_Witness ==
    /\ response # <<>>
    /\ response[1].op = "GetRss"
    /\ response[1].body.items # <<>>
    /\ \E p \in Range(passes) : p.snapshot = <<>>

\* C7: every refresh request is answered at once with the same success
\* acknowledgment, sent when the pass it triggers has not been launched; and
\* an acknowledgment is sent by the request alone, never by a later step of
\* the pass
C7_RefreshAcknowledgedFirst ==
    [][/\ refreshes' = refreshes + 1
            => response' = << [op |-> "PostRefresh", status |-> 200,
                               body |-> [ok |-> TRUE,
                                         message |-> "RSS refresh started in background."],
                               launched |-> launches] >>
       /\ (response' # response /\ response' # <<>> /\ response'[1].op = "PostRefresh")
            => refreshes' = refreshes + 1]_vars

\* a refresh request was acknowledged and the pass it launched has not
\* written its snapshot
C7_Witness ==
    /\ response # <<>>
    /\ response[1].op = "PostRefresh"
    /\ \E p \in Range(passes) :
          /\ p.id = response[1].launched + 1
          /\ p.trigger = "refresh"
          /\ p.snapshot = <<>>

\* C8: what a read returns is the empty default, when no pass has written, or
\* else the snapshot of one pass: its items were collected by that pass, its
\* errors are the errors of that pass and its time is not before that pass
C8_ReadSeesOnePass ==
    (response # <<>> /\ response[1].op = "GetRss") =>
        LET body == response[1].body
        IN IF publisher = <<>>
           THEN body = [items |-> <<>>, fetchedAt |-> <<>>, errors |-> <<>>]
           ELSE /\ <<body>> = Writer.snapshot
                /\ Range(body.items) \subseteq Range(Writer.allItems)
                /\ body.errors = Writer.errors
                /\ body.fetchedAt # <<>>
                /\ body.fetchedAt[1] >= Writer.startedAt

\* a read was answered with the snapshot of one pass while another pass, in
\* flight, had already collected items or errors
C8_Witness ==
    /\ response # <<>>
    /\ response[1].op = "GetRss"
    /\ publisher # <<>>
    /\ \E p \in Range(passes) :
          /\ p.id # Writer.id
          /\ p.snapshot = <<>>
          /\ p.allItems # <<>> \/ p.errors # <<>>

\* C9: in the snapshot a pass writes, every title-bearing item of a feed that
\* answered, if still inside the window when the snapshot is written, was
\* collected under its site; every collected title is in the snapshot unless
\* the snapshot is full; every feed that failed has its own error entry; and
\* a pass whose feed operations have all settled has written its snapshot
C9_FailuresIsolated ==
    /\ \A p \in Range(passes) :
          (\A f \in 1..Len(p.feeds) : p.settled[f]) => p.snapshot # <<>>
    /\ Published =>
          /\ WriterRecorded
          /\ \A f \in 1..Len(Writer.feeds) :
                Writer.fetch[f].state = "resolved" =>
                    \A b \in Range(Document(Writer.fetch[f].xml)) :
                        (/\ b.title # ""
                         /\ \/ b.pubDate.kind = "empty"
                            \/ /\ b.pubDate.kind = "date"
                               /\ Snapshot.fetchedAt[1] - b.pubDate.ms < 26 * 60 * 60 * 1000)
                            => \E i \in 1..Len(Writer.allItems) :
                                   /\ Writer.allItems[i].title = b.title
                                   /\ Writer.allItems[i].source = Writer.feeds[f].site
          /\ \/ Len(Snapshot.items) = 40
             \/ Titles(Writer.allItems) \subseteq Titles(Snapshot.items)
          /\ \A f \in 1..Len(Writer.feeds) :
                Writer.fetch[f].state = "rejected" =>
                    Cardinality({i \in 1..Len(Snapshot.errors) :
                        Snapshot.errors[i].feedUrl = Writer.feeds[f].feedUrl})
                    = Cardinality({g \in 1..Len(Writer.feeds) :
                        /\ Writer.fetch[g].state = "rejected"
                        /\ Writer.feeds[g].feedUrl = Writer.feeds[f].feedUrl})

\* a pass wrote a snapshot with the items of a feed that answered and the
\* error of a feed whose request failed
C9_Witness ==
    /\ Published
    /\ publisher # <<>>
    /\ \E f, g \in 1..Len(Writer.feeds) :
          /\ Writer.fetch[f].state = "resolved"
          /\ Writer.fetch[g].state = "rejected"
          /\ Writer.fetch[g].message = "ECONNREFUSED"
          /\ \E i \in 1..Len(Snapshot.items) :
                 Snapshot.items[i].source = Writer.feeds[f].site
          /\ \E i \in 1..Len(Snapshot.errors) :
                 Snapshot.errors[i].feedUrl = Writer.feeds[g].feedUrl

\* C10 as claimed: the error of every feed whose request failed is in the
\* errors of the snapshot its pass wrote
C10_EveryFailureRecorded ==
    \A p \in Range(passes) \cup Range(publisher) :
        p.snapshot # <<>> =>
            \A f \in 1..Len(p.feeds) :
                p.fetch[f].state = "rejected" =>
                    [feedUrl |-> p.feeds[f].feedUrl, message |-> p.fetch[f].message]
                        \in Range(p.snapshot[1].errors)

\* C10 as amended: the error of every feed whose request had failed when its
\* pass wrote the snapshot is in the errors of that snapshot
C10_EarlierFailuresRecorded ==
    Published =>
        /\ WriterRecorded
        /\ \A f \in 1..Len(Writer.feeds) :
              Writer.fetch[f].state = "rejected" =>
                  [feedUrl |-> Writer.feeds[f].feedUrl,
                   message |-> Writer.fetch[f].message] \in Range(Snapshot.errors)

\* a pass wrote a snapshot after a request of it had failed in transport
C10_Witness ==
    /\ Published
    /\ publisher # <<>>
    /\ \E f \in 1..Len(Writer.feeds) :
          /\ Writer.fetch[f].state = "rejected"
          /\ Writer.fetch[f].message \in {"ECONNREFUSED", "Timeout"}
          /\ [feedUrl |-> Writer.feeds[f].feedUrl,
              message |-> Writer.fetch[f].message] \in Range(Snapshot.errors)

\* the calls that have written a snapshot: those with requests outstanding,
\* as they are now, and the last writer as it was when it wrote
Writers == {q \in Range(passes) \cup Range(publisher) : q.snapshot # <<>>}

\* C11: a feed whose 8-second timer fired while its request was outstanding
\* adds nothing to the snapshot of its pass: the request was still
\* outstanding when the snapshot was written, and the snapshot holds no item
\* of the feed's site and no error entry of its URL, unless another feed of
\* the pass with that site answered or with that URL failed; this stays so
\* when the request ends later
C11_TimedOutFeedContributesNothing ==
    /\ Published =>
          /\ WriterRecorded
          /\ \A f \in 1..Len(Writer.feeds) :
                Writer.timedOut[f] => Writer.fetch[f].state = "inflight"
    /\ \A q \in Writers :
          \A f \in 1..Len(q.feeds) :
              q.timedOut[f] =>
                  /\ (\A g \in 1..Len(q.feeds) :
                          (q.feeds[g].site = q.feeds[f].site /\ ~q.timedOut[g])
                              => q.fetch[g].state # "resolved")
                        => \A i \in 1..Len(q.snapshot[1].items) :
                               q.snapshot[1].items[i].source # q.feeds[f].site
                  /\ (\A g \in 1..Len(q.feeds) :
                          (q.feeds[g].feedUrl = q.feeds[f].feedUrl /\ ~q.timedOut[g])
                              => q.fetch[g].state # "rejected")
                        => \A i \in 1..Len(q.snapshot[1].errors) :
                               q.snapshot[1].errors[i].feedUrl # q.feeds[f].feedUrl

\* the timers of a pass fired and it wrote its snapshot; the request of one of
\* its feeds has ended since, with items that the pass appended to its
\* collection and that the stored snapshot does not hold
C11_Witness ==
    /\ Published
    /\ \E q \in Range(passes) :
          /\ q.snapshot = <<Snapshot>>
          /\ \E f \in 1..Len(q.feeds) :
                /\ q.timedOut[f]
                /\ q.fetch[f].state = "resolved"
                /\ \E i \in 1..Len(q.allItems) :
                       q.allItems[i].source = q.feeds[f].site
                /\ \A i \in 1..Len(Snapshot.items) :
                       Snapshot.items[i].source # q.feeds[f].site

\* the call with this id has been launched and has not written its snapshot
Pending(id) == \E q \in Range(passes) : q.id = id /\ q.snapshot = <<>>

\* C12: every launched pass writes its snapshot in the end, whatever its
\* requests do, and no pass writes a snapshot while one of its feed
\* operations has not settled
C12_PassEventuallyPublishes ==
    /\ \A id \in 1..(MaxRefreshes + 1) : Pending(id) ~> ~Pending(id)
    /\ [](\A q \in Writers : \A f \in 1..Len(q.feeds) : q.settled[f])
    /\ [][\A q \in Range(passes) : (q.snapshot = <<>>) =>
              \E r \in Range(passes') \cup Range(publisher') : r.id = q.id]_vars

\* a pass wrote its snapshot although none of its requests had ended, and
\* they are still outstanding 16 seconds after launch, one of them on the
\* second URL of a redirect cycle
C12_Witness ==
    \E q \in Range(passes) :
        /\ q.snapshot # <<>>
        /\ now >= q.startedAt + 2 * FeedTimeoutMs
        /\ \A f \in 1..Len(q.feeds) :
               HasScheme(q.feeds[f].feedUrl) =>
                   q.timedOut[f] /\ q.fetch[f].state = "inflight"
        /\ \E f \in 1..Len(q.feeds) : q.fetch[f].url # q.feeds[f].feedUrl

\* the key occurs in the site: its tokens stand at consecutive positions
OccursIn(key, site) ==
    \E i \in 0..(Len(site) - Len(key)) :
        \A j \in 1..Len(key) : site[i + j] = key[j]

\* C13: a site in which a key of the table occurs has exactly one candidate,
\* with the feed URL of the first such key in table order; any other site has
\* exactly two, the site without one trailing slash followed by "/feed/" and
\* by "/rss", in that order; and a pass launches one feed operation per
\* candidate, in the order of the candidates
C13_LocatorCandidates ==
    (probe # <<>> /\ probe.result # <<>>) =>
        LET site == probe.site
            cands == probe.result[1].candidates
            ops == probe.result[1].operations
            matching == {k \in 1..Len(BALTIMORE_RSS_FEEDS) :
                            OccursIn(BALTIMORE_RSS_FEEDS[k].key, site)}
            stripped == IF Len(site) > 0 /\ site[Len(site)] = "/"
                        THEN [i \in 1..(Len(site) - 1) |-> site[i]]
                        ELSE site
        IN /\ \A i \in 1..Len(cands) : cands[i].site = site
           /\ IF matching # {}
              THEN /\ Len(cands) = 1
                   /\ \E k \in matching :
                         /\ \A g \in matching : k <= g
                         /\ cands[1].feedUrl = BALTIMORE_RSS_FEEDS[k].feedUrl
              ELSE /\ Len(cands) = 2
                   /\ cands[1].feedUrl = stripped \o <<"/feed/">>
                   /\ cands[2].feedUrl = stripped \o <<"/rss">>
           /\ Len(ops) = Len(cands)
           /\ \A i \in 1..Len(cands) : ops[i] = cands[i].feedUrl

\* the locator ran for "local.baltimoresun.com/news" and gave the one feed of
\* the table entry baltimoresun.com
C13_Witness ==
    /\ probe # <<>>
    /\ probe.result # <<>>
    /\ probe.site = <<"local.", "baltimoresun.com", "/news">>
    /\ Len(probe.result[1].candidates) = 1
    /\ probe.result[1].operations = << <<"https://", "www.baltimoresun.com/arcio/rss/">> >>

\* C14: with the site list "baltimoresun.com\nexample.org" a pass launches
\* three feed operations, for the table feed of baltimoresun.com and for
\* https://example.org/feed/ and https://example.org/rss; and when all three
\* requests have failed, the snapshot the pass wrote has no items and exactly
\* three errors, one for each of the three feed URLs
C14_ThreeFeedsThreeErrors ==
    \A q \in Range(passes) \cup Range(publisher) :
        /\ [f \in 1..Len(q.feeds) |-> q.feeds[f].feedUrl]
              = << <<"https://", "www.baltimoresun.com/arcio/rss/">>,
                   <<"https://", "example.org", "/feed/">>,
                   <<"https://", "example.org", "/rss">> >>
        /\ (q.snapshot # <<>> /\ \A f \in 1..Len(q.feeds) : q.fetch[f].state = "rejected")
              => /\ q.snapshot[1].items = <<>>
                 /\ Len(q.snapshot[1].errors) = 3
                 /\ \A f \in 1..Len(q.feeds) :
                       Cardinality({i \in 1..Len(q.snapshot[1].errors) :
                           q.snapshot[1].errors[i].feedUrl = q.feeds[f].feedUrl}) = 1

\* the call with this id finishes in this step: it was waiting for its feed
\* operations and is not any more
Finishes(id) == Pending(id) /\ ~Pending(id)'

\* C15: a pass that finishes replaces the stored snapshot by its own, built
\* from its own collection and errors alone, whatever other passes are in
\* flight and whichever was started first; and the stored snapshot changes in
\* no other step.  So the stored snapshot is at all times that of the pass
\* that finished last.
C15_LastFinisherWins ==
    [][/\ \A id \in 1..(MaxRefreshes + 1) :
             Finishes(id) =>
                 /\ publisher' # <<>>
                 /\ publisher'[1].id = id
                 /\ dataFile'.rssCache = publisher'[1].snapshot
                 /\ dataFile'.rssCache[1].fetchedAt = <<now>>
                 /\ dataFile'.rssCache[1].errors = publisher'[1].errors
                 /\ Range(dataFile'.rssCache[1].items) \subseteq Range(publisher'[1].allItems)
                 /\ \/ Len(dataFile'.rssCache[1].items) = 40
                    \/ Titles(publisher'[1].allItems)
                           \subseteq Titles(dataFile'.rssCache[1].items)
       /\ (\A id \in 1..(MaxRefreshes + 1) : ~Finishes(id))
             => dataFile'.rssCache = dataFile.rssCache]_vars

\* two passes were launched and both have finished; the stored snapshot is
\* that of the pass that was started first, so the pass that was started
\* while it was in flight finished before it
C15_Witness ==
    /\ launches = 2
    /\ \A q \in Range(passes) : q.snapshot # <<>>
    /\ Published
    /\ publisher # <<>>
    /\ Writer.id = 1
    /\ Writer.snapshot = <<Snapshot>>
    /\ Snapshot.fetchedAt[1] >= Writer.startedAt + FeedTimeoutMs

\* C16: in the snapshot a pass writes, a feed has an error entry exactly when
\* its request had failed; a feed whose request was answered has none,
\* whether or not the body gave any item, and the errors hold nothing else
C16_NoErrorWithoutFailure ==
    Published =>
        /\ WriterRecorded
        /\ \A f \in 1..Len(Writer.feeds) :
              (\E i \in 1..Len(Snapshot.errors) :
                   Snapshot.errors[i].feedUrl = Writer.feeds[f].feedUrl)
                <=> (\E g \in 1..Len(Writer.feeds) :
                        /\ Writer.feeds[g].feedUrl = Writer.feeds[f].feedUrl
                        /\ Writer.fetch[g].state = "rejected")
        /\ Len(Snapshot.errors)
              = Cardinality({f \in 1..Len(Writer.feeds) :
                                 Writer.fetch[f].state = "rejected"})
        /\ \A i \in 1..Len(Snapshot.errors) :
              \E f \in 1..Len(Writer.feeds) :
                  Snapshot.errors[i].feedUrl = Writer.feeds[f].feedUrl

\* a pass wrote a snapshot after one of its feeds had answered with a body
\* that holds blocks, all without a title or stale, and gave no item; the
\* snapshot has the error of another feed and none for this one
C16_Witness ==
    /\ Published
    /\ publisher # <<>>
    /\ Snapshot.errors # <<>>
    /\ \E f \in 1..Len(Writer.feeds) :
          /\ Writer.fetch[f].state = "resolved"
          /\ Document(Writer.fetch[f].xml) # <<>>
          /\ \A i \in 1..Len(Writer.allItems) :
                 Writer.allItems[i].source # Writer.feeds[f].site
          /\ \A i \in 1..Len(Snapshot.errors) :
                 Snapshot.errors[i].feedUrl # Writer.feeds[f].feedUrl

\* the startup timer runs in this step; a refresh request is served in it
StartupRuns == startupPending /\ ~startupPending'
RefreshServed == refreshes' = refreshes + 1

\* the pass launched in this step was started by this trigger
LaunchedBy(trigger) ==
    /\ launches' = launches + 1
    /\ \E r \in Range(passes') \cup Range(publisher') :
          r.id = launches' /\ r.trigger = trigger /\ r.startedAt = now

\* C17: a pass is launched only in a step in which the startup timer runs or
\* a refresh request is served, one pass per such step when a site is saved;
\* the startup timer runs once, not before its delay, and is never armed
\* again; a read of the cache, a save of the site list, the passing of time
\* and the steps of a pass launch nothing
C17_OnlyTwoTriggers ==
    /\ [](launches <= refreshes + (IF startupPending THEN 0 ELSE 1))
    /\ [][(launches' # launches =>
              /\ StartupRuns \/ RefreshServed
              /\ ~(StartupRuns /\ RefreshServed)
              /\ StartupRuns => LaunchedBy("startup")
              /\ RefreshServed => LaunchedBy("refresh"))
          /\ (((StartupRuns \/ RefreshServed) /\ ~NoSiteSaved)
                 => launches' = launches + 1)
          /\ (StartupRuns => now >= StartTime + 5000)
          /\ (~startupPending => ~startupPending')
          /\ ((response' # <<>> /\ response'[1].op = "GetRss")
                 => (launches' = launches /\ passes' = passes))
          /\ (dataFile'.sites # dataFile.sites
                 => (launches' = launches /\ passes' = passes))
          /\ (now' # now => (launches' = launches /\ passes' = passes))]_vars

\* the startup pass and the pass of one refresh request have been launched,
\* 20 seconds have passed since process start, and there is no third pass
C17_Witness ==
    /\ launches = 2
    /\ refreshes = 1
    /\ ~startupPending
    /\ now >= StartTime + 4 * 5000
    /\ \E q \in Range(passes) \cup Range(publisher) : q.trigger = "startup"
    /\ \E q \in Range(passes) \cup Range(publisher) : q.trigger = "refresh"

\* ------------------------------------------------------------------------
\* Vocabulary of the parser claims
\* ------------------------------------------------------------------------
\* the text an element holds: its content without the nested tags, trimmed
TextOf(content) ==
    TrimText(SelectSeq(content, LAMBDA t : t.k \notin {"open", "close"}))

\* the blocks of a document that have a title which is not empty
BlocksWithTitle(bs) ==
    SelectSeq(bs, LAMBDA b : b.title.form # "absent" /\ TextOf(b.title.content) # <<>>)

\* parseRSS has returned
Parsed == probe # <<>> /\ probe.result # <<>>

\* C18: for a document of well-formed item or entry blocks, parseRSS returns
\* exactly one record for each block whose title is not empty, in the order
\* of the blocks and with the title of the block; every returned record has
\* a non-empty title and a description of at most 500 characters
C18_OneRecordPerTitledBlock ==
    Parsed =>
        LET res == probe.result[1]
            titled == BlocksWithTitle(probe.blocks)
        IN /\ Len(res) = Len(titled)
           /\ \A i \in 1..Len(res) :
                  /\ i <= Len(titled) => res[i].title = TextOf(titled[i].title.content)
                  /\ res[i].title # <<>>
                  /\ Len(res[i].description) <= MaxDescriptionLen

\* C19: when every block of a document gave a record, a block whose
\* description is a CDATA section and a block whose description is the same
\* content as plain text have records with the same description text
C19_CdataAndPlainAgree ==
    (Parsed /\ Len(probe.result[1]) = Len(probe.blocks)) =>
        \A i, j \in 1..Len(probe.blocks) :
            ( /\ probe.blocks[i].description.form \in {"cdata", "padded"}
              /\ probe.blocks[j].description.form = "plain"
              /\ probe.blocks[i].description.content
                     = probe.blocks[j].description.content )
                => probe.result[1][i].description = probe.result[1][j].description

\* ------------------------------------------------------------------------
\* Vocabulary of the Transport claim
\* ------------------------------------------------------------------------
\* the promise returned by fetchUrl has settled
TransportSettled == TransportCalled /\ probe.outcome # <<>>

\* hop h has finished on its own account: its response ended, or its request
\* could not be made or failed before any response
HopFinished(h) == probe.chain[h].state \in {"ended", "failed"}

\* C20: fetchUrl settles only as the final hop of the chain does: when it has
\* settled, the hop that settled it is the last one, that hop was not answered
\* with a redirect, a resolution carries the body that hop ended with and a
\* rejection the error that hop failed with; so as long as every hop is
\* answered with a redirect, fetchUrl does not settle
C20_SettlesAsFinalHop ==
    TransportSettled =>
        LET o == probe.outcome[1]
        IN /\ o.hop = Len(probe.chain)
           /\ HopFinished(o.hop)
           /\ o.kind = "resolved" <=> probe.chain[o.hop].state = "ended"
           /\ o.value = probe.chain[o.hop].message

\* ------------------------------------------------------------------------
\* Vocabulary of the claims about the store and the passes
\* ------------------------------------------------------------------------
\* this step ends the request of feed f of the pass at position p, which had
\* written its snapshot before
LateFetch(p, f) ==
    /\ passes[p].snapshot # <<>>
    /\ passes[p].fetch[f].state = "inflight"
    /\ \A r \in Range(passes') :
          r.id = passes[p].id => r.fetch[f].state # "inflight"

\* C21: a step in which a request of a pass ends after the pass has written
\* its snapshot leaves the data file as it is, writes no snapshot, and
\* changes nothing in any other pass, so that what the request brought is in
\* no snapshot that is written later
C21_LateResultsDiscarded ==
    [][\A p \in 1..Len(passes) : \A f \in 1..Len(passes[p].feeds) :
          LateFetch(p, f) =>
              /\ dataFile' = dataFile
              /\ publisher' = publisher
              /\ \A q \in Range(passes) :
                    q.id # passes[p].id => q \in Range(passes')
              /\ \A r \in Range(passes') :
                    r.id = passes[p].id => r.snapshot = passes[p].snapshot]_vars

\* a pass wrote its snapshot when its timers fired; a request of it has
\* failed since, and the error that the pass pushed for it is not in the
\* stored snapshot
C21_Witness ==
    /\ Published
    /\ \E q \in Range(passes) :
          /\ q.snapshot # <<>>
          /\ \E f \in 1..Len(q.feeds) :
                /\ q.timedOut[f]
                /\ q.fetch[f].state = "rejected"
                /\ \E i \in 1..Len(q.errors) :
                       q.errors[i].feedUrl = q.feeds[f].feedUrl
                /\ \A i \in 1..Len(Snapshot.errors) :
                       Snapshot.errors[i].feedUrl # q.feeds[f].feedUrl

\* C22: a step that writes a snapshot changes the rssCache entry of the data
\* file and leaves the site list as it was stored, also a site list saved
\* while the writing pass was in flight; a step that saves a site list leaves
\* the stored snapshot as it was; and no step changes both
C22_NoLostUpdate ==
    [][/\ publisher' # publisher => dataFile'.sites = dataFile.sites
       /\ dataFile'.rssCache # dataFile.rssCache => dataFile'.sites = dataFile.sites
       /\ dataFile'.sites # dataFile.sites => dataFile'.rssCache = dataFile.rssCache]_vars

\* the stored snapshot is the one a pass wrote, and the stored site list is
\* not the one that pass read when it started: it was saved while the pass
\* was in flight or after it wrote, and both updates are in the file
C22_Witness ==
    /\ Published
    /\ WriterRecorded
    /\ Snapshot.items # <<>>
    /\ dataFile.sites # <<>>
    /\ FeedsToFetch(SavedSites(dataFile.sites[1])) # Writer.feeds

\* the sites of the site list that is stored
StoredSites ==
    IF dataFile.sites = <<>> THEN {} ELSE Range(SavedSites(dataFile.sites[1]))

\* the sites of the feeds of a pass
FeedSites(q) == {q.feeds[f].site : f \in 1..Len(q.feeds)}

\* C23: the feeds of a pass are those of the sites of the list that is stored
\* when the pass starts, and they stay as they are as long as the pass lives,
\* whatever is saved meanwhile; every item that a pass collects, and every
\* item of a snapshot that a pass has written, has as its source the site of
\* one of these feeds
C23_SourcesFixedAtStart ==
    /\ [][launches' # launches =>
              \A r \in Range(passes') \cup Range(publisher') :
                  r.id = launches' => FeedSites(r) = StoredSites]_vars
    /\ [][\A q \in Range(passes) :
              \A r \in Range(passes') \cup Range(publisher') :
                  r.id = q.id => r.feeds = q.feeds]_vars
    /\ [](\A q \in Range(passes) \cup Range(publisher) :
            /\ \A i \in 1..Len(q.allItems) : q.allItems[i].source \in FeedSites(q)
            /\ q.snapshot # <<>> =>
                  \A i \in 1..Len(q.snapshot[1].items) :
                      q.snapshot[1].items[i].source \in FeedSites(q))
    /\ [](Published =>
            /\ WriterRecorded
            /\ \A i \in 1..Len(Snapshot.items) :
                  Snapshot.items[i].source \in FeedSites(Writer))

\* the site list was replaced by one without sites after a pass had started;
\* the snapshot of that pass is stored, with items of a site of the list it
\* had read, and a request of the pass is still outstanding
C23_Witness ==
    /\ Published
    /\ StoredSites = {}
    /\ Snapshot.items # <<>>
    /\ \E q \in Range(passes) :
          /\ q.snapshot = <<Snapshot>>
          /\ q.allItems # <<>>
          /\ \E f \in 1..Len(q.feeds) : q.fetch[f].state = "inflight"

\* the error entries of a snapshot that name the feed URL u
ErrorsOf(snap, u) == SelectSeq(snap.errors, LAMBDA e : e.feedUrl = u)

\* the feed candidates of a pass with the feed URL u whose operation failed
FailedCandidates(q, u) ==
    {f \in 1..Len(q.feeds) : q.feeds[f].feedUrl = u /\ q.fetch[f].state = "rejected"}

\* feed candidate f of the writer has items of its own in the snapshot: its
\* operation appended what the request brought, and the snapshot holds items
\* of its site
Contributes(f) ==
    /\ Writer.fetch[f].state = "resolved"
    /\ ~Writer.timedOut[f]
    /\ \E i \in 1..Len(Snapshot.items) :
           Snapshot.items[i].source = Writer.feeds[f].site

\* C24 as stated: the stored snapshot has at most as many error entries as
\* its pass had feed candidates, no two error entries name one feed URL, and
\* no feed that has items in the snapshot has an error entry in it
C24_OneErrorPerFeedUrl ==
    (Published /\ WriterRecorded) =>
        /\ Len(Snapshot.errors) <= Len(Writer.feeds)
        /\ \A f \in 1..Len(Writer.feeds) :
              /\ Len(ErrorsOf(Snapshot, Writer.feeds[f].feedUrl)) <= 1
              /\ Contributes(f) => ErrorsOf(Snapshot, Writer.feeds[f].feedUrl) = <<>>

\* C24, amended: the stored snapshot has at most as many error entries as its
\* pass had feed candidates; the error entries that name a feed URL are as
\* many as the candidates with that URL whose operation had failed when the
\* snapshot was written, one for each, so that a candidate whose operation
\* appended items accounts for no error entry
C24_OneErrorPerCandidate ==
    (Published /\ WriterRecorded) =>
        /\ Len(Snapshot.errors) <= Len(Writer.feeds)
        /\ \A i \in 1..Len(Snapshot.errors) :
              \E f \in 1..Len(Writer.feeds) :
                  Writer.feeds[f].feedUrl = Snapshot.errors[i].feedUrl
        /\ \A f \in 1..Len(Writer.feeds) :
              Len(ErrorsOf(Snapshot, Writer.feeds[f].feedUrl))
                  = Cardinality(FailedCandidates(Writer, Writer.feeds[f].feedUrl))

\* of the two candidates with the feed URL of the publisher one has its items
\* in the stored snapshot and the other has failed and has its error entry
C24_Witness ==
    /\ Published
    /\ WriterRecorded
    /\ \E f, g \in 1..Len(Writer.feeds) :
          /\ f # g
          /\ Writer.feeds[f].feedUrl = Writer.feeds[g].feedUrl
          /\ Contributes(f)
          /\ Writer.fetch[g].state = "rejected"
          /\ Len(ErrorsOf(Snapshot, Writer.feeds[g].feedUrl)) = 1

====
